---- MODULE Spec2Model ----
\* Model of facilitator/src/manifest.rs: loading a peer's specific manifest
\* (from_https, from_file, from_reader) and resolving a batch signing public
\* key from it (batch_signing_public_key).
EXTENDS Integers, Sequences, FiniteSets, TLC

\* ------------------------------------------------------------------ bounds
\* Number of concurrent callers of batch_signing_public_key on one manifest.
NumThreads == 2
\* Key points of PointLen - MaxExtra .. PointLen + MaxExtra bytes are tried.
MaxExtra == 1
\* Number of manifest load calls in one behaviour.
MaxCalls == 2

\* ------------------------------------------------------------- byte strings
ECDSA_P256_SPKI_PREFIX ==
  << 48, 89, 48, 19, 6, 7, 42, 134, 72, 206, 61, 2, 1, 6, 8, 42,
     134, 72, 206, 61, 3, 1, 7, 3, 66, 0 >>

PrefixLen == Len(ECDSA_P256_SPKI_PREFIX)

\* The BIT STRING length announced by the prefix (0x42) counts the one
\* unused-bits byte (0x00) that the prefix already holds.
PointLen == ECDSA_P256_SPKI_PREFIX[25] - 1

\* Symbols of the text between the PEM armor lines: 0..63 are the base64
\* alphabet, PAD is '=', NL a line break, BAD a byte outside the alphabet.
PAD == 64
NL == 65
BAD == 66

ByteAt(b, i) == IF i <= Len(b) THEN b[i] ELSE 0

\* The armored form of a byte string (how the inputs below are written).
Base64Encode(b) ==
  [k \in 1..(((Len(b) + 2) \div 3) * 4) |->
     LET g == (k - 1) \div 4
         r == (k - 1) % 4
     IN CASE r = 0 -> ByteAt(b, 3 * g + 1) \div 4
          [] r = 1 -> (ByteAt(b, 3 * g + 1) % 4) * 16 + (ByteAt(b, 3 * g + 2) \div 16)
          [] r = 2 -> IF 3 * g + 2 > Len(b) THEN PAD
                      ELSE (ByteAt(b, 3 * g + 2) % 16) * 4 + (ByteAt(b, 3 * g + 3) \div 64)
          [] OTHER -> IF 3 * g + 3 > Len(b) THEN PAD ELSE ByteAt(b, 3 * g + 3) % 64]

IsSymbol(x) == x # NL

\* str::lines().map(trim_end).collect(): the line breaks are dropped.
JoinLines(s) == SelectSeq(s, IsSymbol)

RECURSIVE StripPad(_)
StripPad(s) ==
  IF Len(s) > 0 /\ s[Len(s)] = PAD THEN StripPad(SubSeq(s, 1, Len(s) - 1)) ELSE s

\* Four symbols of six bits make three bytes; two or three closing symbols
\* make one or two.
DecodeQuads(s) ==
  [j \in 1..((Len(s) \div 4) * 3 + (IF Len(s) % 4 = 0 THEN 0 ELSE (Len(s) % 4) - 1)) |->
     LET g == (j - 1) \div 3
         r == (j - 1) % 3
     IN CASE r = 0 -> s[4 * g + 1] * 4 + (s[4 * g + 2] \div 16)
          [] r = 1 -> (s[4 * g + 2] % 16) * 16 + (s[4 * g + 3] \div 4)
          [] OTHER -> (s[4 * g + 3] % 4) * 64 + s[4 * g + 4]]

\* base64::decode_config(data, STANDARD): every symbol is of the alphabet, at
\* most two '=' and only at the end, no dangling symbol, no trailing bits.
Base64Decode(s) ==
  LET body == StripPad(s)
      n == Len(body)
      r == n % 4
  IN IF \/ \E i \in 1..n : body[i] > 63
        \/ Len(s) - n > 2
        \/ r = 1
        \/ r = 2 /\ body[n] % 16 # 0
        \/ r = 3 /\ body[n] % 4 # 0
     THEN [ok |-> FALSE, bytes |-> << >>]
     ELSE [ok |-> TRUE, bytes |-> DecodeQuads(body)]

\* pem::parse: the armor must frame the text, both tags be non-empty and
\* equal, and the joined lines be base64.
pem_parse(text) ==
  IF ~text.framed THEN [ok |-> FALSE, err |-> "MalformedFraming", tag |-> "", contents |-> << >>]
  ELSE IF text.begin = "" THEN [ok |-> FALSE, err |-> "MissingBeginTag", tag |-> "", contents |-> << >>]
  ELSE IF text.end = "" THEN [ok |-> FALSE, err |-> "MissingEndTag", tag |-> "", contents |-> << >>]
  ELSE IF text.begin # text.end THEN [ok |-> FALSE, err |-> "MismatchedTags", tag |-> "", contents |-> << >>]
  ELSE LET d == Base64Decode(JoinLines(text.data))
       IN IF ~d.ok THEN [ok |-> FALSE, err |-> "InvalidData", tag |-> "", contents |-> << >>]
          ELSE [ok |-> TRUE, err |-> "", tag |-> text.begin, contents |-> d.bytes]

\* ------------------------------------------------------------ JSON documents
\* A document is what the reader yields: bytes that are not JSON at all, or a
\* JSON value. A JSON string is either plain text or a PEM-armored text, kept
\* as its begin tag, the symbols between the armor lines and its end tag.
\* A JSON integer is kept as sign and two 16-bit halves, hi * 2^16 + lo, so that
\* values around the u32 limit can be written.
JNum(neg, hi, lo) == [t |-> "num", neg |-> neg, hi |-> hi, lo |-> lo]
JStr(s) == [t |-> "str", s |-> s]
JObj(f) == [t |-> "obj", f |-> f]
NotJson == [t |-> "invalid"]

PemText(begin, data, end) ==
  [framed |-> TRUE, begin |-> begin, data |-> data, end |-> end, plain |-> ""]
PlainText(s) ==
  [framed |-> FALSE, begin |-> "", data |-> << >>, end |-> "", plain |-> s]

Half == 65536

StrOf(v) == v.s

IsObj(v) == v.t = "obj"
HasStr(v, k) == IsObj(v) /\ k \in DOMAIN v.f /\ v.f[k].t = "str"
HasObj(v, k) == IsObj(v) /\ k \in DOMAIN v.f /\ v.f[k].t = "obj"
\* format: u32
HasU32(v, k) == IsObj(v) /\ k \in DOMAIN v.f /\ v.f[k].t = "num"
                /\ ~v.f[k].neg /\ v.f[k].hi < Half

\* #[derive(Deserialize)] struct BatchSigningPublicKey
IsBatchSigningPublicKey(v) == HasStr(v, "public-key") /\ HasStr(v, "expiration")
BatchSigningPublicKey(v) ==
  [public_key |-> StrOf(v.f["public-key"]), expiration |-> StrOf(v.f["expiration"])]

\* #[derive(Deserialize)] struct PacketEncryptionCertificate
IsPacketEncryptionCertificate(v) == HasStr(v, "certificate")
PacketEncryptionCertificate(v) == [certificate |-> StrOf(v.f["certificate"])]

\* #[derive(Deserialize)] struct SpecificManifest: every field is required and
\* typed; fields the struct does not name are ignored.
IsSpecificManifest(v) ==
  /\ HasU32(v, "format")
  /\ HasStr(v, "ingestion-bucket")
  /\ HasStr(v, "peer-validation-bucket")
  /\ HasObj(v, "batch-signing-public-keys")
  /\ \A k \in DOMAIN v.f["batch-signing-public-keys"].f :
        IsBatchSigningPublicKey(v.f["batch-signing-public-keys"].f[k])
  /\ HasObj(v, "packet-encryption-certificates")
  /\ \A k \in DOMAIN v.f["packet-encryption-certificates"].f :
        IsPacketEncryptionCertificate(v.f["packet-encryption-certificates"].f[k])

SpecificManifest(v) ==
  [format |-> [hi |-> v.f["format"].hi, lo |-> v.f["format"].lo],
   ingestion_bucket |-> StrOf(v.f["ingestion-bucket"]),
   peer_validation_bucket |-> StrOf(v.f["peer-validation-bucket"]),
   batch_signing_public_keys |->
     [k \in DOMAIN v.f["batch-signing-public-keys"].f |->
        BatchSigningPublicKey(v.f["batch-signing-public-keys"].f[k])],
   packet_encryption_certificates |->
     [k \in DOMAIN v.f["packet-encryption-certificates"].f |->
        PacketEncryptionCertificate(v.f["packet-encryption-certificates"].f[k])]]

\* The value held where a call produced no manifest.
NoManifest ==
  [format |-> [hi |-> Half, lo |-> 0],
   ingestion_bucket |-> PlainText(""),
   peer_validation_bucket |-> PlainText(""),
   batch_signing_public_keys |-> << >>,
   packet_encryption_certificates |-> << >>]

LoadOk(m) == [ok |-> TRUE, kind |-> "", msg |-> << >>, val |-> m]
LoadErr(kind, msg) == [ok |-> FALSE, kind |-> kind, msg |-> msg, val |-> NoManifest]

\* serde_json::from_reader into SpecificManifest
serde_from_reader(doc) ==
  IF IsSpecificManifest(doc) THEN LoadOk(SpecificManifest(doc))
  ELSE LoadErr("SchemaError", << "serde_json" >>)

Zero == [hi |-> 0, lo |-> 0]

\* The format compared after truncation to 16 bits.
UnsupportedFormat_truncated(m) == m.format.lo # 0

UnsupportedFormat(m) == m.format # Zero

\* SpecificManifest::from_reader
from_reader(doc) ==
  LET d == serde_from_reader(doc)
  IN IF ~d.ok
       THEN LoadErr("SchemaError", << "failed to decode JSON specific manifest" >> \o d.msg)
     ELSE IF UnsupportedFormat(d.val)
       THEN LoadErr("UnsupportedFormatError",
                    << "unsupported manifest format ", ToString(d.val.format.hi), "*2^16+", ToString(d.val.format.lo) >>)
     ELSE LoadOk(d.val)

\* --------------------------------------------------------------- key resolver
ECDSA_P256_SHA256_FIXED == "ECDSA_P256_SHA256_FIXED"

NoHandle == [algorithm |-> "", bytes |-> << >>]
KeyOk(h) == [ok |-> TRUE, kind |-> "", msg |-> << >>, val |-> h]
KeyErr(kind, msg) == [ok |-> FALSE, kind |-> kind, msg |-> msg, val |-> NoHandle]

\* UnparsedPublicKey::new(algorithm, bytes)
UnparsedPublicKey(algorithm, bytes) == [algorithm |-> algorithm, bytes |-> bytes]

\* self.batch_signing_public_keys.get(identifier)
HasKey(m, identifier) == identifier \in DOMAIN m.batch_signing_public_keys

\* The lookup failure reported as the failure of the step after it.
NoValueForKey_asParseFailure(identifier) ==
  KeyErr("PemParseError", << "failed to parse key entry ", identifier, " as PEM" >>)

NoValueForKey(identifier) ==
  KeyErr("UnknownKeyError", << "no value for key ", identifier >>)

FailedToParse(identifier, p) ==
  KeyErr("PemParseError", << "failed to parse key entry ", identifier, " as PEM", p.err >>)

\* The tag check as it would be if the EC-specific tag were let through.
TagMismatch_lenient(p) == p.tag \notin { "PUBLIC KEY", "EC PUBLIC KEY" }

TagMismatch(p) == p.tag # "PUBLIC KEY"

\* anyhow!() is given the literal alone, so the placeholder stays as written.
NotAPublicKey(identifier) ==
  KeyErr("WrongPemTagError", << "key for identifier {} is not a PEM encoded public key" >>)

\* The length check with <= for <.
TooShort_inclusive(p) == Len(p.contents) <= Len(ECDSA_P256_SPKI_PREFIX)

TooShort(p) == Len(p.contents) < Len(ECDSA_P256_SPKI_PREFIX)

NotLongEnough(identifier) ==
  KeyErr("TruncatedKeyError",
         << "PEM contents not long enough to contain ASN.1 encoded ECDSA P256 SubjectPublicKeyInfo" >>)

PrefixMismatch(p) ==
  SubSeq(p.contents, 1, Len(ECDSA_P256_SPKI_PREFIX)) # ECDSA_P256_SPKI_PREFIX

NotSpki(identifier) ==
  KeyErr("UnrecognizedKeyTypeError",
         << "PEM contents are not ASN.1 encoded ECDSA P256 SubjectPublicKeyInfo" >>)

\* The key cut one byte early, keeping the last byte of the prefix.
RawKey_early(p) ==
  UnparsedPublicKey(ECDSA_P256_SHA256_FIXED,
                    SubSeq(p.contents, Len(ECDSA_P256_SPKI_PREFIX), Len(p.contents)))

RawKey(p) ==
  UnparsedPublicKey(ECDSA_P256_SHA256_FIXED,
                    SubSeq(p.contents, Len(ECDSA_P256_SPKI_PREFIX) + 1, Len(p.contents)))

\* SpecificManifest::batch_signing_public_key, run from call to return.
batch_signing_public_key(m, identifier) ==
  IF ~HasKey(m, identifier) THEN NoValueForKey(identifier)
  ELSE LET p == pem_parse(m.batch_signing_public_keys[identifier].public_key)
       IN IF ~p.ok THEN FailedToParse(identifier, p)
          ELSE IF TagMismatch(p) THEN NotAPublicKey(identifier)
          ELSE IF TooShort(p) THEN NotLongEnough(identifier)
          ELSE IF PrefixMismatch(p) THEN NotSpki(identifier)
          ELSE KeyOk(RawKey(p))

\* ------------------------------------------------------------------ addresses
\* An address or a reference is written as its sequence of tokens: names and
\* the separators "://", ":" and "/". A parsed Url has a scheme, a host, the
\* sequence of its path segments ("/a/" is << "a", "" >>) and the
\* cannot-be-a-base flag.
NoUrl == [scheme |-> "", host |-> "", path |-> << >>, opaque |-> FALSE]

UrlOk(u) == [ok |-> TRUE, url |-> u]
UrlErr == [ok |-> FALSE, url |-> NoUrl]

SpecialSchemes == { "http", "https", "ws", "wss", "ftp", "file" }

IsSeparator(tok) == tok \in { "://", ":", "/" }

\* The segments a path text splits into at its "/" tokens.
RECURSIVE SplitPath(_, _)
SplitPath(toks, cur) ==
  IF Len(toks) = 0 THEN << cur >>
  ELSE IF toks[1] = "/" THEN << cur >> \o SplitPath(Tail(toks), "")
  ELSE SplitPath(Tail(toks), toks[1])

ButLast(s) == IF Len(s) = 0 THEN s ELSE SubSeq(s, 1, Len(s) - 1)

\* Appends the segments to the path, resolving "." and ".." on the way.
RECURSIVE Resolve(_, _)
Resolve(path, segs) ==
  IF Len(segs) = 0 THEN path
  ELSE IF segs[1] = ".."
    THEN Resolve(IF Len(segs) = 1 THEN ButLast(path) \o << "" >> ELSE ButLast(path), Tail(segs))
  ELSE IF segs[1] = "."
    THEN Resolve(IF Len(segs) = 1 THEN path \o << "" >> ELSE path, Tail(segs))
  ELSE Resolve(path \o << segs[1] >>, Tail(segs))

HasScheme(toks) == Len(toks) >= 2 /\ ~IsSeparator(toks[1]) /\ toks[2] \in { "://", ":" }

\* Url::parse
Url_parse(toks) ==
  IF ~HasScheme(toks) THEN UrlErr
  ELSE IF toks[2] = ":"
    THEN IF toks[1] \in SpecialSchemes THEN UrlErr
         ELSE UrlOk([scheme |-> toks[1], host |-> "", path |-> SubSeq(toks, 3, Len(toks)),
                     opaque |-> TRUE])
  ELSE LET rest == SubSeq(toks, 3, Len(toks))
           host == IF Len(rest) > 0 /\ ~IsSeparator(rest[1]) THEN rest[1] ELSE ""
           after == IF host = "" THEN rest ELSE Tail(rest)
           segs == IF Len(after) = 0 THEN << >> ELSE Tail(SplitPath(after, ""))
           path == IF Len(segs) = 0 /\ toks[1] \in SpecialSchemes THEN << "" >>
                   ELSE Resolve(<< >>, segs)
       IN IF host = "" /\ toks[1] \in SpecialSchemes \ { "file" } THEN UrlErr
          ELSE UrlOk([scheme |-> toks[1], host |-> host, path |-> path, opaque |-> FALSE])

\* Url::join: the reference is resolved against the base; a relative path
\* replaces the last segment of the base's path.
Url_join(base, toks) ==
  IF HasScheme(toks) THEN Url_parse(toks)
  ELSE IF base.opaque THEN UrlErr
  ELSE IF Len(toks) = 0 THEN UrlOk(base)
  ELSE IF toks[1] = "/"
    THEN UrlOk([base EXCEPT !.path = Resolve(<< >>, Tail(SplitPath(toks, "")))])
  ELSE UrlOk([base EXCEPT !.path = Resolve(ButLast(base.path), SplitPath(toks, ""))])

\* Url::set_scheme: a scheme change may not cross between special and
\* non-special schemes, and a special scheme needs a host.
Url_set_scheme(u, scheme) ==
  IF (scheme \in SpecialSchemes) # (u.scheme \in SpecialSchemes) THEN UrlErr
  ELSE IF scheme \in SpecialSchemes /\ u.host = "" THEN UrlErr
  ELSE UrlOk([u EXCEPT !.scheme = scheme])

ManifestFile == << "specific-manifest.json" >>

\* The scheme left at the insecure one.
SecureScheme_plain == "http"

SecureScheme == "https"

\* The address from_https computes, up to the point the request is built.
manifest_url(base_path, peer_name) ==
  LET base == Url_parse(base_path)
  IN IF ~base.ok THEN [ok |-> FALSE, url |-> NoUrl, msg |-> "failed to parse base path into URL"]
     ELSE LET j1 == Url_join(base.url, peer_name)
          IN IF ~j1.ok THEN [ok |-> FALSE, url |-> NoUrl, msg |-> "failed to join URL component"]
             ELSE LET j2 == Url_join(j1.url, ManifestFile)
                  IN IF ~j2.ok
                       THEN [ok |-> FALSE, url |-> NoUrl, msg |-> "failed to join URL component"]
                     ELSE LET u == Url_set_scheme(j2.url, SecureScheme)
                          IN IF ~u.ok
                               THEN [ok |-> FALSE, url |-> NoUrl,
                                     msg |-> "failed to set URL scheme to HTTPS"]
                             ELSE [ok |-> TRUE, url |-> u.url, msg |-> ""]

\* ------------------------------------------------------------------- inputs
Point(n) == [i \in 1..n |-> IF i = 1 THEN 4 ELSE (i * 37) % 256]

PointLens == {0} \cup ((PointLen - MaxExtra)..(PointLen + MaxExtra))

Spki(n) == ECDSA_P256_SPKI_PREFIX \o Point(n)

\* The prefix with its k-th byte changed.
Altered(k) == [ECDSA_P256_SPKI_PREFIX EXCEPT ![k] = (@ + 1) % 256]

\* "too short\n", the content of the third key of tests::invalid_public_key
TooShortBytes == << 116, 111, 111, 32, 115, 104, 111, 114, 116, 10 >>

Armor(tag, bytes) == PemText(tag, Base64Encode(bytes) \o << NL >>, tag)

GoodTexts == { Armor("PUBLIC KEY", Spki(n)) : n \in PointLens }

ShortTexts ==
  { Armor("PUBLIC KEY", b) :
      b \in { << >>, TooShortBytes, SubSeq(ECDSA_P256_SPKI_PREFIX, 1, PrefixLen - 1) } }

OtherTypeTexts ==
  { Armor("PUBLIC KEY", b) :
      b \in { Altered(1) \o Point(PointLen), Altered(PrefixLen) \o Point(PointLen),
              Altered(PrefixLen), Point(PrefixLen) } }

WrongTagTexts ==
  { Armor("EC PUBLIC KEY", b) :
      b \in { Spki(PointLen), TooShortBytes, Altered(1) \o Point(PointLen) } }

BrokenTexts ==
  { PlainText("who cares"),
    PemText("PUBLIC KEY", Base64Encode(Spki(PointLen)), "EC PUBLIC KEY"),
    PemText("", Base64Encode(Spki(PointLen)), "PUBLIC KEY"),
    PemText("PUBLIC KEY", Base64Encode(Spki(PointLen)), ""),
    PemText("PUBLIC KEY", << 5, BAD, 7, 9 >>, "PUBLIC KEY"),
    PemText("PUBLIC KEY", Base64Encode(Spki(0)) \o << 5 >>, "PUBLIC KEY"),
    PemText("PUBLIC KEY", << 5, 1 >>, "PUBLIC KEY") }

KeyTexts == GoodTexts \cup ShortTexts \cup OtherTypeTexts \cup WrongTagTexts \cup BrokenTexts

Identifiers == { "fake-key-1", "fake-key-2", "fake-key-3" }

SigningKey(text) ==
  JObj([k \in {"public-key", "expiration"} |->
          IF k = "public-key" THEN JStr(text) ELSE JStr(PlainText(""))])

Certificates ==
  JObj([k \in {"fake-key-1"} |->
          JObj([c \in {"certificate"} |-> JStr(PlainText("who cares"))])])

\* The document of tests::load_manifest with the given format and signing keys.
ManifestDoc(format, keys) ==
  JObj([k \in {"format", "ingestion-bucket", "peer-validation-bucket",
               "batch-signing-public-keys", "packet-encryption-certificates"} |->
          CASE k = "format" -> format
            [] k = "ingestion-bucket" -> JStr(PlainText("us-west-1/ingestion"))
            [] k = "peer-validation-bucket" -> JStr(PlainText("us-west-1/validation"))
            [] k = "batch-signing-public-keys" -> JObj(keys)
            [] OTHER -> Certificates])

KeyMaps ==
  { << >> }
  \cup { [k \in {"fake-key-2"} |-> SigningKey(text)] : text \in KeyTexts }
  \cup { [k \in {"fake-key-2", "fake-key-3"} |->
            IF k = "fake-key-2" THEN SigningKey(text)
            ELSE SigningKey(Armor("PUBLIC KEY", Spki(PointLen)))] : text \in KeyTexts }

BasePaths ==
  { << "https", "://", "example.com", "/" >>,
    << "http", "://", "example.com", "/", "manifests", "/" >>,
    << "http", "://", "example.com", "/", "manifests" >>,
    << "ftp", "://", "example.com" >>,
    << "file", "://", "/", "tmp", "/" >>,
    << "foo", "://", "example.com", "/" >>,
    << "mailto", ":", "someone" >>,
    << "example.com", "/" >>,
    << "http", "://" >> }

PeerNames ==
  { << "peer" >>,
    << "peer", "/" >>,
    << "/", "peer" >>,
    << "..", "/", "peer", "/" >>,
    << "a", "/", "b", "/" >>,
    << "https", "://", "evil.example", "/" >>,
    << >> }

Paths == { << "manifest.json" >>, << "missing.json" >> }

GoodKeys == [k \in {"fake-key-2"} |-> SigningKey(Armor("PUBLIC KEY", Spki(PointLen)))]

FooKeys ==
  [k \in {"fake-key-2"} |-> SigningKey(PemText("PUBLIC KEY", << 31, 40, 40 >>, "PUBLIC KEY"))]

Without(doc, field) == JObj([k \in DOMAIN doc.f \ {field} |-> doc.f[k]])

With(doc, field, v) ==
  JObj([k \in DOMAIN doc.f \cup {field} |-> IF k = field THEN v ELSE doc.f[k]])

\* What a read may return: the documents of tests::load_manifest and
\* tests::invalid_manifest, and further ones around the schema and the format.
Documents ==
  { NotJson,
    JObj([k \in {"missing"} |-> JStr(PlainText("keys"))]),
    Without(ManifestDoc(JNum(FALSE, 0, 0), FooKeys), "format"),
    ManifestDoc(JNum(FALSE, 0, 1), FooKeys),
    ManifestDoc(JStr(PlainText("zero")), FooKeys),
    ManifestDoc(JNum(FALSE, 0, 0), GoodKeys),
    ManifestDoc(JNum(FALSE, 0, 0), FooKeys),
    ManifestDoc(JNum(FALSE, 0, 0), << >>),
    ManifestDoc(JNum(FALSE, 1, 0), GoodKeys),
    ManifestDoc(JNum(FALSE, Half, 0), GoodKeys),
    ManifestDoc(JNum(TRUE, 0, 1), GoodKeys),
    With(ManifestDoc(JNum(FALSE, 0, 0), GoodKeys), "missing", JStr(PlainText("keys"))),
    Without(ManifestDoc(JNum(FALSE, 0, 0), GoodKeys), "ingestion-bucket"),
    With(ManifestDoc(JNum(FALSE, 0, 0), GoodKeys), "batch-signing-public-keys",
         JStr(PlainText("none"))),
    ManifestDoc(JNum(FALSE, 0, 0),
                [k \in {"fake-key-2"} |-> Without(SigningKey(PlainText("")), "expiration")]),
    JStr(PlainText("format")) }

\* The read yielded no bytes (it failed, or it was never issued).
NotRead == [t |-> "unread"]

\* ---------------------------------------------------------------- the state
VARIABLES
  manifest,   \* the SpecificManifest the resolving threads borrow (&self)
  pc,         \* per thread: where it is in batch_signing_public_key
  ident,      \* per thread: the identifier argument
  key,        \* per thread: the local `key` (its public_key string)
  pem,        \* per thread: the local `pem`
  result,     \* per thread: the value returned
  parsed,     \* per thread: whether this call has called pem::parse
  calls,      \* number of load calls made
  reads,      \* number of network or file reads issued
  request,    \* the arguments of the last load call
  fetched,    \* the address of the GET request the last call sent, if any
  body,       \* the bytes the last call's read returned, if any
  loaded      \* the value the last load call returned

resolverVars == << manifest, pc, ident, key, pem, result, parsed >>
loaderVars == << calls, reads, request, fetched, body, loaded >>
vars == << manifest, pc, ident, key, pem, result, parsed,
           calls, reads, request, fetched, body, loaded >>

Threads == 1..NumThreads

NoPem == [ok |-> FALSE, err |-> "", tag |-> "", contents |-> << >>]
NoResult == [ok |-> FALSE, kind |-> "", msg |-> << >>, val |-> NoHandle]

NoRequest == [form |-> "", base |-> << >>, peer |-> << >>]

\* A local of one call: each call has its own.
SetLocal(f, t, v) == [f EXCEPT ![t] = v]

\* The looked-up key kept in one place for all calls.
BindKey_shared(f, t, v) == [u \in DOMAIN f |-> v]

\* let key = ...: the local `key` of this call.
BindKey(f, t, v) == [f EXCEPT ![t] = v]

LoaderIdle ==
  /\ calls = 0
  /\ reads = 0
  /\ request = NoRequest
  /\ fetched = NoUrl
  /\ body = NotRead
  /\ loaded = LoadErr("", << >>)

ThreadsIdle ==
  /\ pc = [t \in Threads |-> "idle"]
  /\ ident = [t \in Threads |-> ""]
  /\ key = [t \in Threads |-> PlainText("")]
  /\ pem = [t \in Threads |-> NoPem]
  /\ result = [t \in Threads |-> NoResult]
  /\ parsed = [t \in Threads |-> FALSE]

\* The manifest is one that from_reader returned.
Init ==
  /\ \E keys \in KeyMaps : manifest = from_reader(ManifestDoc(JNum(FALSE, 0, 0), keys)).val
  /\ ThreadsIdle
  /\ LoaderIdle

Call(t, identifier) ==
  /\ pc[t] = "idle"
  /\ pc' = SetLocal(pc, t, "get")
  /\ ident' = SetLocal(ident, t, identifier)
  /\ UNCHANGED << manifest, key, pem, result, parsed, loaderVars >>

GetFound(t) ==
  /\ pc[t] = "get"
  /\ HasKey(manifest, ident[t])
  /\ key' = BindKey(key, t, manifest.batch_signing_public_keys[ident[t]].public_key)
  /\ pc' = SetLocal(pc, t, "parse")
  /\ UNCHANGED << manifest, ident, pem, result, parsed, loaderVars >>

GetMissing(t) ==
  /\ pc[t] = "get"
  /\ ~HasKey(manifest, ident[t])
  /\ result' = SetLocal(result, t, NoValueForKey(ident[t]))
  /\ pc' = SetLocal(pc, t, "done")
  /\ UNCHANGED << manifest, ident, key, pem, parsed, loaderVars >>

Parse(t) ==
  /\ pc[t] = "parse"
  /\ parsed' = SetLocal(parsed, t, TRUE)
  /\ LET p == pem_parse(key[t])
     IN /\ pem' = SetLocal(pem, t, p)
        /\ IF p.ok
             THEN /\ pc' = SetLocal(pc, t, "tag")
                  /\ UNCHANGED result
             ELSE /\ pc' = SetLocal(pc, t, "done")
                  /\ result' = SetLocal(result, t, FailedToParse(ident[t], p))
  /\ UNCHANGED << manifest, ident, key, loaderVars >>

CheckTag(t) ==
  /\ pc[t] = "tag"
  /\ IF TagMismatch(pem[t])
       THEN /\ pc' = SetLocal(pc, t, "done")
            /\ result' = SetLocal(result, t, NotAPublicKey(ident[t]))
       ELSE /\ pc' = SetLocal(pc, t, "len")
            /\ UNCHANGED result
  /\ UNCHANGED << manifest, ident, key, pem, parsed, loaderVars >>

CheckLen(t) ==
  /\ pc[t] = "len"
  /\ IF TooShort(pem[t])
       THEN /\ pc' = SetLocal(pc, t, "done")
            /\ result' = SetLocal(result, t, NotLongEnough(ident[t]))
       ELSE /\ pc' = SetLocal(pc, t, "prefix")
            /\ UNCHANGED result
  /\ UNCHANGED << manifest, ident, key, pem, parsed, loaderVars >>

CheckPrefix(t) ==
  /\ pc[t] = "prefix"
  /\ pc' = SetLocal(pc, t, "done")
  /\ result' = SetLocal(result, t,
                        IF PrefixMismatch(pem[t]) THEN NotSpki(ident[t])
                        ELSE KeyOk(RawKey(pem[t])))
  /\ UNCHANGED << manifest, ident, key, pem, parsed, loaderVars >>

\* The caller is done with the returned value; the call's locals are gone.
Return(t) ==
  /\ pc[t] = "done"
  /\ pc' = SetLocal(pc, t, "idle")
  /\ ident' = SetLocal(ident, t, "")
  /\ key' = SetLocal(key, t, PlainText(""))
  /\ pem' = SetLocal(pem, t, NoPem)
  /\ result' = SetLocal(result, t, NoResult)
  /\ parsed' = SetLocal(parsed, t, FALSE)
  /\ UNCHANGED << manifest, loaderVars >>

Next ==
  \/ \E t \in Threads, identifier \in Identifiers : Call(t, identifier)
  \/ \E t \in Threads : GetFound(t)
  \/ \E t \in Threads : GetMissing(t)
  \/ \E t \in Threads : Parse(t)
  \/ \E t \in Threads : CheckTag(t)
  \/ \E t \in Threads : CheckLen(t)
  \/ \E t \in Threads : CheckPrefix(t)
  \/ \E t \in Threads : Return(t)

Spec == Init /\ [][Next]_vars

\* ------------------------------------------------------------ manifest loader
\* Client::new().get(url).send(), File::open(path): the one read of a call.
\* The read issued a second time.
Issue_twice(n) == n + 2

Issue(n) == n + 1

FailedToFetch == LoadErr("RetrievalError", << "failed to fetch specific manifest" >>)
FailedToOpen == LoadErr("RetrievalError", << "failed to open manifest file" >>)
BadAddress(msg) == LoadErr("AddressConstructionError", << msg >>)

\* SpecificManifest::from_https
FromHttps(base_path, peer_name) ==
  /\ calls < MaxCalls
  /\ calls' = calls + 1
  /\ request' = [form |-> "https", base |-> base_path, peer |-> peer_name]
  /\ LET u == manifest_url(base_path, peer_name)
     IN IF ~u.ok
          THEN /\ loaded' = BadAddress(u.msg)
               /\ fetched' = NoUrl
               /\ body' = NotRead
               /\ UNCHANGED reads
          ELSE /\ fetched' = u.url
               /\ reads' = Issue(reads)
               /\ \/ /\ body' = NotRead
                     /\ loaded' = FailedToFetch
                  \/ \E doc \in Documents :
                        /\ body' = doc
                        /\ loaded' = from_reader(doc)
  /\ UNCHANGED resolverVars

\* SpecificManifest::from_file
FromFile(path) ==
  /\ calls < MaxCalls
  /\ calls' = calls + 1
  /\ request' = [form |-> "file", base |-> path, peer |-> << >>]
  /\ fetched' = NoUrl
  /\ reads' = Issue(reads)
  /\ \/ /\ body' = NotRead
        /\ loaded' = FailedToOpen
     \/ \E doc \in Documents :
           /\ body' = doc
           /\ loaded' = from_reader(doc)
  /\ UNCHANGED resolverVars

InitLoader ==
  /\ manifest = NoManifest
  /\ ThreadsIdle
  /\ LoaderIdle

NextLoader ==
  \/ \E base_path \in BasePaths, peer_name \in PeerNames : FromHttps(base_path, peer_name)
  \/ \E path \in Paths : FromFile(path)

SpecLoader == InitLoader /\ [][NextLoader]_vars

\* ------------------------------------------------------------------- claims
Range(s) == { s[i] : i \in DOMAIN s }

Done(t) == pc[t] = "done"

\* What the manifest holds for the identifier thread t resolves.
Present(t) == ident[t] \in DOMAIN manifest.batch_signing_public_keys
Stored(t) == pem_parse(manifest.batch_signing_public_keys[ident[t]].public_key)
StartsWithPrefix(bytes) ==
  Len(bytes) >= 26 /\ SubSeq(bytes, 1, 26) = ECDSA_P256_SPKI_PREFIX

\* C1: for a PEM string that decodes, the resolution returns a handle if and
\* only if the identifier is a key of batch_signing_public_keys, the tag is
\* "PUBLIC KEY", and the content is at least 26 bytes and starts with the fixed
\* prefix; the handle then holds the content from offset 26 on, in order, and
\* the fixed ECDSA-P256-SHA256 algorithm.
C1_HandleIffWellFormed ==
  \A t \in Threads :
    (Done(t) /\ (Present(t) => Stored(t).ok)) =>
      /\ result[t].ok <=>
           (Present(t) /\ Stored(t).tag = "PUBLIC KEY" /\ StartsWithPrefix(Stored(t).contents))
      /\ result[t].ok =>
           /\ result[t].val.bytes =
                [i \in 1..(Len(Stored(t).contents) - 26) |-> Stored(t).contents[26 + i]]
           /\ result[t].val.algorithm = "ECDSA_P256_SHA256_FIXED"

\* A resolution returned a handle for a key whose content is the prefix alone,
\* and another returned a handle holding a whole point.
C1_Witness ==
  \E t, u \in Threads :
    /\ Done(t) /\ result[t].ok /\ Len(Stored(t).contents) = 26
    /\ Done(u) /\ result[u].ok /\ Len(result[u].val.bytes) = PointLen

\* C3: for a stored key that decodes, a tag other than "PUBLIC KEY" fails with
\* WrongPemTagError, content shorter than 26 bytes with TruncatedKeyError, and
\* longer content that does not start with the prefix with
\* UnrecognizedKeyTypeError; the first failing check in the order tag, length,
\* prefix decides the kind, and no handle is produced.
C3_DefectKinds ==
  \A t \in Threads :
    (Done(t) /\ Present(t) /\ Stored(t).ok) =>
      LET p == Stored(t)
      IN /\ p.tag # "PUBLIC KEY" =>
              ~result[t].ok /\ result[t].kind = "WrongPemTagError" /\ result[t].val = NoHandle
         /\ (p.tag = "PUBLIC KEY" /\ Len(p.contents) < 26) =>
              ~result[t].ok /\ result[t].kind = "TruncatedKeyError" /\ result[t].val = NoHandle
         /\ (p.tag = "PUBLIC KEY" /\ Len(p.contents) >= 26 /\ ~StartsWithPrefix(p.contents)) =>
              ~result[t].ok /\ result[t].kind = "UnrecognizedKeyTypeError"
              /\ result[t].val = NoHandle

\* A key with the wrong tag and too short a content was refused for its tag.
C3_Witness ==
  \E t \in Threads :
    /\ Done(t) /\ Present(t) /\ Stored(t).ok
    /\ Stored(t).tag # "PUBLIC KEY" /\ Len(Stored(t).contents) < 26
    /\ result[t].kind = "WrongPemTagError"

\* C6 as stated: every handle returned holds exactly 65 key bytes.
C6_Original ==
  \A t \in Threads : (Done(t) /\ result[t].ok) => Len(result[t].val.bytes) = 65

\* C6 amended: every handle returned holds the decoded content less its first
\* 26 bytes, whatever the content's length; it holds 65 bytes exactly when the
\* decoded content is 91 bytes long.
C6_Amended ==
  \A t \in Threads :
    (Done(t) /\ result[t].ok) =>
      /\ Len(result[t].val.bytes) = Len(Stored(t).contents) - 26
      /\ Len(result[t].val.bytes) = 65 <=> Len(Stored(t).contents) = 91

\* A handle of 65 bytes and a handle of another length were returned.
C6_Witness ==
  \E t, u \in Threads :
    /\ Done(t) /\ result[t].ok /\ Len(result[t].val.bytes) = 65
    /\ Done(u) /\ result[u].ok /\ Len(result[u].val.bytes) # 65

\* C7: an identifier that is not a key of batch_signing_public_keys fails with
\* UnknownKeyError and the call never reaches pem::parse, also when the key
\* map is empty and when the identifier names a packet encryption certificate.
C7_UnknownKey ==
  \A t \in Threads :
    (pc[t] # "idle" /\ ~Present(t)) =>
      /\ ~parsed[t]
      /\ pc[t] \in { "get", "done" }
      /\ Done(t) => (~result[t].ok /\ result[t].kind = "UnknownKeyError"
                     /\ result[t].val = NoHandle)

\* The identifier of a certificate was resolved against an empty key map.
C7_Witness ==
  \E t \in Threads :
    /\ Done(t)
    /\ DOMAIN manifest.batch_signing_public_keys = {}
    /\ ident[t] \in DOMAIN manifest.packet_encryption_certificates
    /\ result[t].kind = "UnknownKeyError"

\* C8 as stated: every error of a resolution names the identifier being
\* resolved, and carries no key bytes.
C8_ErrorsNameIdentifier ==
  \A t \in Threads :
    (Done(t) /\ ~result[t].ok) =>
      /\ ident[t] \in Range(result[t].msg)
      /\ result[t].val.bytes = << >>

\* C10: a resolution never changes the manifest, and under every interleaving
\* each resolution returns what it returns when run alone on the same manifest
\* and identifier.
C10_Isolation ==
  /\ [](\A t \in Threads :
          Done(t) => result[t] = batch_signing_public_key(manifest, ident[t]))
  /\ [][manifest' = manifest]_vars

\* Two resolutions of different keys of one manifest ended with different
\* outcomes at the same time.
C10_Witness ==
  \E t, u \in Threads :
    /\ Done(t) /\ Done(u) /\ ident[t] # ident[u]
    /\ Present(t) /\ Present(u)
    /\ result[t].ok /\ ~result[u].ok

\* C2: a load returns a record if and only if the bytes read match the
\* SpecificManifest schema and format is 0; a matching document with another
\* format fails with UnsupportedFormatError, a non-matching one with
\* SchemaError, and a failure returns no record.
C2_FormatGate ==
  body # NotRead =>
    LET shaped == IsSpecificManifest(body)
        zero == shaped /\ body.f["format"].hi = 0 /\ body.f["format"].lo = 0
    IN /\ loaded.ok <=> zero
       /\ loaded.ok => loaded.val = SpecificManifest(body)
       /\ (shaped /\ ~zero) => loaded.kind = "UnsupportedFormatError"
       /\ ~shaped => loaded.kind = "SchemaError"
       /\ ~loaded.ok => loaded.val = NoManifest

\* A fetched document of the right shape was refused for its format, which is
\* a multiple of 2^16.
C2_Witness ==
  /\ request.form = "https"
  /\ body # NotRead
  /\ IsSpecificManifest(body) /\ body.f["format"].hi > 0 /\ body.f["format"].lo = 0
  /\ loaded.kind = "UnsupportedFormatError"

\* C4 as stated, in its plainest case: whenever a base that ends with "/" and
\* a peer name of one segment compose into an address, the path of the address
\* fetched ends with the peer name followed by specific-manifest.json.
C4_PeerSegmentKept ==
  (request.form = "https" /\ fetched # NoUrl
   /\ request.base[Len(request.base)] = "/"
   /\ Len(request.peer) = 1 /\ ~IsSeparator(request.peer[1])) =>
    /\ Len(fetched.path) >= 2
    /\ fetched.path[Len(fetched.path) - 1] = request.peer[1]
    /\ fetched.path[Len(fetched.path)] = "specific-manifest.json"

\* The address of base and peer name before the scheme is forced.
Joined(base_path, peer_name) ==
  LET base == Url_parse(base_path)
  IN IF ~base.ok THEN UrlErr
     ELSE LET j == Url_join(base.url, peer_name)
          IN IF ~j.ok THEN UrlErr ELSE Url_join(j.url, ManifestFile)

\* C5: whatever the scheme of the base, a request that from_https sends goes to
\* an https address; when the scheme cannot be forced the call fails with
\* AddressConstructionError, and no call that fails so sends a request.
C5_HttpsOnly ==
  [][(calls' = calls + 1 /\ request'.form = "https") =>
       LET j == Joined(request'.base, request'.peer)
       IN /\ reads' # reads => (fetched' # NoUrl /\ fetched'.scheme = "https")
          /\ loaded'.kind = "AddressConstructionError" => (reads' = reads /\ fetched' = NoUrl)
          /\ (j.ok /\ ~Url_set_scheme(j.url, "https").ok) =>
               loaded'.kind = "AddressConstructionError"]_vars

\* A request was sent over https for a base given with the http scheme.
C5_Witness ==
  /\ request.form = "https"
  /\ reads > 0
  /\ fetched # NoUrl /\ fetched.scheme = "https"
  /\ request.base[1] = "http"

\* C9: a load call issues at most one read and none after a failure, and what
\* it returns is decided by the bytes of its own read alone: from_reader of
\* them when the read returned bytes, a failure when it returned none.
C9_OneReadNoCache ==
  [][calls' # calls =>
       /\ calls' = calls + 1
       /\ reads' \in { reads, reads + 1 }
       /\ body' # NotRead => (reads' = reads + 1 /\ loaded' = from_reader(body'))
       /\ body' = NotRead => ~loaded'.ok]_vars

\* A second call made its own read although the first had failed to read.
C9_Witness ==
  /\ calls >= 2
  /\ reads = calls
  /\ body # NotRead
  /\ loaded.ok
====
